---- MODULE Spec2Model ----
(***************************************************************************)
(* Model of the stdio JSON-RPC client (agent/mcp_stdio.py) and of the case *)
(* runner (agent/evaluator.py).                                            *)
(*                                                                         *)
(* The client is a sequential program: `stack` holds its control position  *)
(* (top of the call stack first), `ret` the value returned by the last     *)
(* call.  The child process is the environment: it writes lines into its   *)
(* stdout pipe, dies, or stays silent.  Time is counted in polling ticks   *)
(* since the start_time of the outstanding request.                        *)
(***************************************************************************)
EXTENDS Integers, Sequences, FiniteSets, TLC

VARIABLES
    process,      \* self.process: None or the handle (pid) of the child
    request_id,   \* self.request_id
    initialized,  \* self.initialized
    stack,        \* control position of the client, innermost frame first
    ret,          \* value returned by the call that returned last
    elapsed,      \* time.time() - start_time of the outstanding request (0 if none)
    line,         \* _send_request's local `line` (the line read last)
    pipe,         \* lines written by the child and not yet read
    alive,        \* the child of `process` is running (pipes open)
    nprocs,       \* number of children spawned so far (pids are 1..nprocs)
    signals,      \* signals the running stop() has sent to the child, in order
    wire,         \* messages the client wrote to a child's stdin, in order
    result,       \* evaluate_case's `result` record
    log,          \* records appended to the log file
    case,         \* the case under evaluation (inputs from the collaborators)
    input,        \* arguments of one call of a classifier function
    output,       \* what that call returned
    tools         \* ToolRegistry.tools: the registered tools, in insertion order

vars == <<process, request_id, initialized, stack, ret, elapsed,
          line, pipe, alive, nprocs, signals, wire, result, log, case,
          input, output, tools>>

clientVars == <<process, request_id, initialized>>
classVars == <<input, output, tools>>
evalVars == <<result, log, case, classVars>>

----------------------------------------------------------------------------
(* Bounds of the model *)

MaxReq == 2        \* requests one client sends
MaxPipe == 1       \* unread lines the pipe holds
MaxProc == 2       \* children one client spawns
MaxCases == 1      \* cases one run evaluates
Timeout == 2       \* self.timeout, in polling ticks

ElapsedCap == Timeout + 1

None == 0
NoId == 0

----------------------------------------------------------------------------
(* Lines the child can write on its stdout *)

\* what a response object carries: a result that is an object, a result that
\* is no object, an error, an error together with a result
Bodies == {"result", "badresult", "error", "error_result"}

\* "error" in response
HasError(body) == body \in {"error", "error_result"}

\* a JSON object with the given id (NoId: without id) and body
ObjLines(ids, bodies) == [kind : {"obj"}, id : ids, body : bodies]

NoLine == [kind |-> "none", id |-> NoId, body |-> "none"]

\* a blank line, a line that is no JSON, a JSON value that is no object
NonObjLines == { [kind |-> k, id |-> NoId, body |-> "none"] :
                    k \in {"blank", "garbage", "scalar"} }

Ret(ok, data) == [ok |-> ok, data |-> data]

Top == IF stack = <<>> THEN "idle" ELSE Head(stack)

Return(v) == /\ stack' = Tail(stack)
             /\ ret' = v

Goto(l) == stack' = <<l>> \o Tail(stack)

Call(f, k) == stack' = <<f, k>> \o Tail(stack)

EvalFrames == {"ev_inited", "ev_listed", "ev_called"}

InEval == \E i \in 1..Len(stack) : stack[i] \in EvalFrames

\* the frames of the caller of evaluate_case
CallerFrames ==
    LET i == CHOOSE i \in 1..Len(stack) :
                 stack[i] \in EvalFrames /\ \A j \in 1..(i - 1) : stack[j] \notin EvalFrames
    IN SubSeq(stack, i + 1, Len(stack))

\* An exception unwinds to the with-block of evaluate_case, or to the caller.
Raise == /\ stack' = IF InEval THEN <<"ev_exit_exc">> \o CallerFrames ELSE <<>>
         /\ ret' = Ret(FALSE, "raised")

----------------------------------------------------------------------------
(* MCPStdioClient.start *)

Start ==
    /\ Top = "start"
    /\ \/ /\ nprocs < MaxProc
          /\ nprocs' = nprocs + 1
          /\ process' = nprocs + 1
          /\ pipe' = <<>>
          /\ alive' = TRUE
          /\ Return(Ret(TRUE, "none"))
       \/ /\ Return(Ret(FALSE, "none"))
          /\ UNCHANGED <<process, pipe, alive, nprocs>>
    /\ UNCHANGED <<request_id, initialized, elapsed, line, signals, wire, evalVars>>

(* MCPStdioClient.stop *)

\* a stop that also restarts the id counter
Stop_resets ==
    /\ Top = "stop"
    /\ IF process # None
          THEN /\ signals' = <<"terminate">>
               /\ Goto("stop_wait")
               /\ ret' = ret
          ELSE /\ Return(Ret(TRUE, "none"))
               /\ signals' = signals
    /\ request_id' = 0
    /\ UNCHANGED <<process, initialized, elapsed, line, pipe, alive, nprocs, wire, evalVars>>

\* `if self.process: self.process.terminate()`
Stop ==
    /\ Top = "stop"
    /\ IF process # None
          THEN /\ signals' = <<"terminate">>
               /\ Goto("stop_wait")
               /\ ret' = ret
          ELSE /\ Return(Ret(TRUE, "none"))
               /\ signals' = signals
    /\ UNCHANGED <<clientVars, elapsed, line, pipe, alive, nprocs, wire, evalVars>>

\* a wait that is followed by kill in any case
StopWait_kills ==
    /\ Top = "stop_wait"
    /\ signals' = Append(signals, "kill")
    /\ alive' = FALSE
    /\ process' = None
    /\ pipe' = <<>>
    /\ Return(Ret(TRUE, "none"))
    /\ UNCHANGED <<request_id, initialized, elapsed, line, nprocs, wire, evalVars>>

\* `self.process.wait(timeout=5)` returns once the child has exited; when the
\* child still runs at the end of the wait, TimeoutExpired is raised and the
\* handler kills it.  Then `self.process = None`.
StopWait ==
    /\ Top = "stop_wait"
    /\ IF alive
          THEN /\ signals' = Append(signals, "kill")
               /\ alive' = FALSE
          ELSE UNCHANGED <<signals, alive>>
    /\ process' = None
    /\ pipe' = <<>>
    /\ Return(Ret(TRUE, "none"))
    /\ UNCHANGED <<request_id, initialized, elapsed, line, nprocs, wire, evalVars>>

----------------------------------------------------------------------------
(* MCPStdioClient._send_request *)

\* the frames to which _send_request returns
AfterSend == {"init_resp", "lt_resp", "ct_resp"}

\* what _send_request returns for its own failures
SendFailures == {"not_started", "request_failed", "timeout", "rpc_error"}

\* the `method` argument of the call of _send_request that returns to frame k
MethodOf(k) == CASE k = "init_resp" -> "initialize"
                 [] k = "lt_resp" -> "tools/list"
                 [] k = "ct_resp" -> "tools/call"

\* a counter that advances by two
NextRequestId_skip(id) == id + 2

\* self.request_id += 1
NextRequestId(id) == id + 1

\* a client that also takes a response to an earlier request
IdMatches_stale(l, id) == l.id # NoId /\ l.id <= id

IdMatches(l, id) == l.id = id

\* a client for which a line that is no JSON ends the call
SkipUnparseable_fatal == Return(Ret(FALSE, "request_failed"))

\* except json.JSONDecodeError: continue
SkipUnparseable == Goto("loop") /\ ret' = ret

\* the tool named in the params of a tools/call request: the runner passes
\* its chosen_tool; other requests, and other callers, name none here
NameOf(method) == IF method = "tools/call" THEN result.chosen_tool ELSE "null"

\* a client that counts a request before it looks for the child
SendRequest_counts ==
    /\ Top = "send"
    /\ IF process = None
          THEN /\ Return(Ret(FALSE, "not_started"))
               /\ request_id' = NextRequestId(request_id)
               /\ UNCHANGED <<wire, elapsed>>
          ELSE /\ request_id' = NextRequestId(request_id)
               /\ wire' = Append(wire, [method |-> MethodOf(stack[2]), id |-> request_id',
                                        name |-> NameOf(MethodOf(stack[2])),
                                        proc |-> process, delivered |-> alive])
               /\ IF alive
                     THEN /\ elapsed' = 0
                          /\ Goto("loop")
                          /\ ret' = ret
                     ELSE /\ Return(Ret(FALSE, "request_failed"))
                          /\ elapsed' = 0
    /\ line' = NoLine
    /\ UNCHANGED <<process, initialized, pipe, alive, nprocs, signals, evalVars>>

\* lines 67-80: the test for the child, the id, the write
SendRequest ==
    /\ Top = "send"
    /\ IF process = None
          THEN /\ Return(Ret(FALSE, "not_started"))
               /\ UNCHANGED <<request_id, wire, elapsed>>
          ELSE /\ request_id' = NextRequestId(request_id)
               /\ wire' = Append(wire, [method |-> MethodOf(stack[2]), id |-> request_id',
                                        name |-> NameOf(MethodOf(stack[2])),
                                        proc |-> process, delivered |-> alive])
               /\ IF alive
                     THEN /\ elapsed' = 0
                          /\ Goto("loop")
                          /\ ret' = ret
                     ELSE /\ Return(Ret(FALSE, "request_failed"))
                          /\ elapsed' = 0
    /\ line' = NoLine
    /\ UNCHANGED <<process, initialized, pipe, alive, nprocs, signals, evalVars>>

LoopCheck ==
    /\ Top = "loop"
    /\ IF elapsed < Timeout
          THEN Goto("read") /\ ret' = ret
          ELSE Return(Ret(FALSE, "timeout"))
    /\ elapsed' = IF stack' = Tail(stack) THEN 0 ELSE elapsed
    /\ UNCHANGED <<clientVars, line, pipe, alive, nprocs, signals, wire, evalVars>>

ReadLine ==
    /\ Top = "read"
    /\ IF pipe # <<>>
          THEN LET l == Head(pipe) IN
               /\ pipe' = Tail(pipe)
               /\ line' = l
               /\ CASE l.kind = "blank" ->          \* line.strip() is empty
                         Goto("sleep") /\ ret' = ret
                    [] l.kind = "garbage" -> SkipUnparseable
                    [] l.kind = "scalar" ->         \* response.get raises: outer except
                         Return(Ret(FALSE, "request_failed"))
                    [] l.kind = "obj" ->
                         IF IdMatches(l, request_id)
                            THEN IF HasError(l.body)
                                    THEN Return(Ret(FALSE, "rpc_error"))
                                    ELSE Return(Ret(TRUE, l.body))
                            ELSE Goto("sleep") /\ ret' = ret
          ELSE \* end of file: readline returns the empty string at once
               /\ ~alive
               /\ Goto("sleep")
               /\ UNCHANGED <<ret, line, pipe>>
    /\ elapsed' = IF stack' = Tail(stack) THEN 0 ELSE elapsed
    /\ UNCHANGED <<clientVars, alive, nprocs, signals, wire, evalVars>>

Sleep ==
    /\ Top = "sleep"
    /\ elapsed' = IF elapsed < ElapsedCap THEN elapsed + 1 ELSE elapsed
    /\ Goto("loop")
    /\ UNCHANGED <<clientVars, ret, line, pipe, alive, nprocs, signals, wire, evalVars>>

\* readline on an empty pipe of a running child blocks; time goes by
Blocked ==
    /\ Top = "read"
    /\ pipe = <<>>
    /\ alive
    /\ elapsed < ElapsedCap
    /\ elapsed' = elapsed + 1
    /\ UNCHANGED <<clientVars, stack, ret, line, pipe, alive, nprocs, signals, wire, evalVars>>

----------------------------------------------------------------------------
(* MCPStdioClient.initialize *)

Initialize ==
    /\ Top = "initialize"
    /\ IF process = None
          THEN Call("start", "init_started")
          ELSE Call("send", "init_resp")
    /\ UNCHANGED <<clientVars, ret, elapsed, line, pipe, alive, nprocs, signals, wire, evalVars>>

InitStarted ==
    /\ Top = "init_started"
    /\ IF ret.ok
          THEN Call("send", "init_resp") /\ ret' = ret
          ELSE Return(Ret(FALSE, "none"))
    /\ UNCHANGED <<clientVars, elapsed, line, pipe, alive, nprocs, signals, wire, evalVars>>

\* an initialize that goes on after a failed request
InitResp_ignores ==
    /\ Top = "init_resp"
    /\ Goto("init_notify")
    /\ ret' = ret
    /\ UNCHANGED <<clientVars, elapsed, line, pipe, alive, nprocs, signals, wire, evalVars>>

InitResp ==
    /\ Top = "init_resp"
    /\ IF ret.ok
          THEN Goto("init_notify") /\ ret' = ret
          ELSE Return(Ret(FALSE, "none"))
    /\ UNCHANGED <<clientVars, elapsed, line, pipe, alive, nprocs, signals, wire, evalVars>>

InitNotify ==
    /\ Top = "init_notify"
    /\ IF alive
          THEN /\ wire' = Append(wire, [method |-> "notifications/initialized", id |-> NoId,
                                        name |-> "null",
                                        proc |-> process, delivered |-> TRUE])
               /\ Goto("init_mark")
               /\ ret' = ret
          ELSE /\ Return(Ret(FALSE, "none"))
               /\ wire' = wire
    /\ UNCHANGED <<clientVars, elapsed, line, pipe, alive, nprocs, signals, evalVars>>

InitMark ==
    /\ Top = "init_mark"
    /\ initialized' = TRUE
    /\ Return(Ret(TRUE, "none"))
    /\ UNCHANGED <<process, request_id, elapsed, line, pipe, alive, nprocs, signals, wire, evalVars>>

----------------------------------------------------------------------------
(* MCPStdioClient.list_tools *)

ListTools ==
    /\ Top = "list_tools"
    /\ IF ~initialized
          THEN Call("initialize", "lt_inited")
          ELSE Call("send", "lt_resp")
    /\ UNCHANGED <<clientVars, ret, elapsed, line, pipe, alive, nprocs, signals, wire, evalVars>>

LtInited ==
    /\ Top = "lt_inited"
    /\ IF ret.ok
          THEN Call("send", "lt_resp") /\ ret' = ret
          ELSE Return(Ret(FALSE, "empty"))
    /\ UNCHANGED <<clientVars, elapsed, line, pipe, alive, nprocs, signals, wire, evalVars>>

LtResp ==
    /\ Top = "lt_resp"
    /\ IF ~ret.ok
          THEN Return(Ret(FALSE, "empty"))
          ELSE IF ret.data = "badresult"
                  THEN Raise    \* response.get on a result that is no object
                  ELSE Return(Ret(TRUE, "tools"))
    /\ UNCHANGED <<clientVars, elapsed, line, pipe, alive, nprocs, signals, wire, evalVars>>

(* MCPStdioClient.call_tool *)

CallTool ==
    /\ Top = "call_tool"
    /\ IF ~initialized
          THEN Call("initialize", "ct_inited")
          ELSE Call("send", "ct_resp")
    /\ UNCHANGED <<clientVars, ret, elapsed, line, pipe, alive, nprocs, signals, wire, evalVars>>

CtInited ==
    /\ Top = "ct_inited"
    /\ IF ret.ok
          THEN Call("send", "ct_resp") /\ ret' = ret
          ELSE Return(Ret(FALSE, "not_initialized"))
    /\ UNCHANGED <<clientVars, elapsed, line, pipe, alive, nprocs, signals, wire, evalVars>>

CtResp ==
    /\ Top = "ct_resp"
    /\ Return(ret)
    /\ UNCHANGED <<clientVars, elapsed, line, pipe, alive, nprocs, signals, wire, evalVars>>

----------------------------------------------------------------------------
(* The child process *)

\* The lines a child writes: any non-object line, a message without id, a
\* response to the outstanding request, a response to the request before it
\* (the client never looks at the body of a line whose id it does not await).
ServerLines ==
    NonObjLines \cup ObjLines({request_id}, Bodies)
                \cup ObjLines({NoId, request_id - 1}, {"result"})

\* The client sees the pipe only while it reads: what the child writes between
\* two requests is what it writes at the start of the second.
ServerWrite ==
    /\ process # None
    /\ alive
    /\ Top \in {"loop", "read", "sleep"}
    /\ Len(pipe) < MaxPipe
    /\ \E l \in ServerLines : pipe' = Append(pipe, l)
    /\ UNCHANGED <<clientVars, stack, ret, elapsed, line, alive, nprocs, signals, wire, evalVars>>

ServerExit ==
    /\ process # None
    /\ alive
    /\ alive' = FALSE
    /\ UNCHANGED <<clientVars, stack, ret, elapsed, line, pipe, nprocs, signals, wire, evalVars>>

----------------------------------------------------------------------------
(* A caller using the client's public operations in any order *)

Ops == {"start", "stop", "initialize", "list_tools", "call_tool"}

Needs(op) == IF op \in {"start", "stop"} THEN 0
             ELSE IF op = "initialize" THEN 1
             ELSE IF initialized THEN 1 ELSE 2

CallerInvoke ==
    /\ stack = <<>>
    /\ \E op \in Ops :
          /\ request_id + Needs(op) <= MaxReq
          /\ stack' = <<op>>
    /\ line' = NoLine
    /\ ret' = Ret(FALSE, "none")
    /\ signals' = <<>>
    /\ UNCHANGED <<clientVars, elapsed, pipe, alive, nprocs, wire, evalVars>>

----------------------------------------------------------------------------
(* JSON values as the evaluator's Python code sees them *)

MaxStr == 2        \* words in a string
MaxItems == 2      \* elements of a list that is a field of a result
MaxLog == 2        \* records in a log that is summarized
MaxTools == 2      \* tools in one tools/list response
MaxContent == 1    \* items of a content list

Absent == [t |-> "absent"]          \* a key the object does not have
Null == [t |-> "null"]              \* None
Bool(b) == [t |-> "bool", b |-> b]
Num(n) == [t |-> "num", n |-> n]
Str(s) == [t |-> "str", s |-> s]    \* s: the words of the string, in order
List(e) == [t |-> "list", e |-> e]  \* e: the elements, in order
Obj(f) == [t |-> "obj", f |-> f]    \* f: the function from keys to values

\* the object with the members of the record m that are not Absent
Members(m) == Obj([k \in {j \in DOMAIN m : m[j] # Absent} |-> m[k]])

EmptyObj == Obj([k \in {} |-> Null])

\* dict.get(key, default)
Get(o, key, default) == IF key \in DOMAIN o.f THEN o.f[key] ELSE default

\* bool(v)
Truthy(v) ==
    CASE v.t = "null" -> FALSE
      [] v.t = "bool" -> v.b
      [] v.t = "num" -> v.n # 0
      [] v.t = "str" -> v.s # <<>>
      [] v.t = "list" -> v.e # <<>>
      [] v.t = "obj" -> DOMAIN v.f # {}

\* A string is the concatenation of its words.  No word is a prefix of
\* another, and no text the code searches for ("Error:", "error", "failed",
\* ...) arises across the border of two words.
PlainWords == {" ", "Error:", "Failed:", "None", "null", "EMPTY", "ok",
               "Invalid", "not found"}

\* words that are the text of a JSON object once ' is replaced by "
JsonWords == {"{'a': 1}", "{'data': []}"}

Words == PlainWords \cup JsonWords

RECURSIVE SeqsUpTo(_, _)
SeqsUpTo(S, n) ==
    IF n = 0 THEN {<<>>}
    ELSE LET shorter == SeqsUpTo(S, n - 1)
         IN shorter \cup {Append(s, x) : s \in {u \in shorter : Len(u) = n - 1}, x \in S}

Strings == SeqsUpTo(Words, MaxStr)

\* str.lower(), word by word
Lower(w) ==
    CASE w = "Error:" -> "error:"
      [] w = "Failed:" -> "failed:"
      [] w = "None" -> "none"
      [] w = "EMPTY" -> "empty"
      [] w = "Invalid" -> "invalid"
      [] OTHER -> w

RECURSIVE lstrip(_)
lstrip(s) == IF s # <<>> /\ Head(s) = " " THEN lstrip(Tail(s)) ELSE s

RECURSIVE rstrip(_)
rstrip(s) == IF s # <<>> /\ s[Len(s)] = " " THEN rstrip(SubSeq(s, 1, Len(s) - 1)) ELSE s

\* str.strip()
strip(s) == rstrip(lstrip(s))

\* str.startswith(w) for a word w
startswith(s, w) == s # <<>> /\ Head(s) = w

\* s.lower() in names, for a list of names that are single words
LowerIn(s, names) == Len(s) = 1 /\ Lower(s[1]) \in names

\* indicator in s.lower(), for each of the error indicators
ErrorIndicators == {"error", "failed", "exception", "not found", "invalid"}

WordHas(w, indicator) ==
    CASE indicator = "error" -> Lower(w) = "error:"
      [] indicator = "failed" -> Lower(w) = "failed:"
      [] indicator = "invalid" -> Lower(w) = "invalid"
      [] indicator = "not found" -> Lower(w) = "not found"
      [] OTHER -> FALSE

Contains(s, indicator) == \E i \in 1..Len(s) : WordHas(s[i], indicator)

\* json.loads(s.replace("'", '"')): the object, or Absent when the text is
\* no JSON or is the JSON of something that is no object
ParsedObject(s) ==
    LET u == strip(s) IN
    IF Len(u) = 1 /\ u[1] = "{'a': 1}" THEN Obj([a |-> Num(1)])
    ELSE IF Len(u) = 1 /\ u[1] = "{'data': []}" THEN Obj([data |-> List(<<>>)])
    ELSE Absent

\* a list of n numbers
ListOf(n) == List([i \in 1..n |-> Num(1)])

Leaves == {Null, Bool(FALSE), Num(0), Str(<<>>), Str(<<"ok">>)}
              \cup {ListOf(n) : n \in 0..MaxItems}

\* objects nested in a result object
InnerObjects == {EmptyObj, Obj([b |-> Null]), Obj([b |-> Str(<<"ok">>)])}

FieldValues == Leaves \cup InnerObjects

\* result objects: with or without "data", with or without another field
ResultObjects ==
    {Members([data |-> d, a |-> v]) : d \in FieldValues \cup {Absent},
                                      v \in FieldValues \cup {Absent}}

\* the values of structuredContent.result
ResultValues ==
    {Absent, Null, Num(0)} \cup {Str(s) : s \in Strings} \cup ResultObjects
        \cup {ListOf(n) : n \in 0..MaxItems}

\* items of a content list
ContentItems ==
    {Str(<<"ok">>), Obj([type |-> Str(<<"image">>)]), Obj([type |-> Str(<<"text">>)]),
     Obj([type |-> Str(<<"text">>), text |-> Null])}
        \cup {Obj([type |-> Str(<<"text">>), text |-> Str(s)]) :
                 s \in {<<" ">>, <<"ok">>, <<" ", "Error:">>}}

\* the values of the content member
ContentValues == {Absent, Null} \cup {List(e) : e \in SeqsUpTo(ContentItems, MaxContent)}

\* the values of the structuredContent member
StructuredContents(results) ==
    {Absent, Null, Str(<<"ok">>)} \cup {Members([result |-> v]) : v \in results}

\* the call_result object with the given members
CallResult(flag, sc, content) ==
    Members([isError |-> flag, structuredContent |-> sc, content |-> content])

CallResultObjects(flags, scs, contents) ==
    {CallResult(flag, sc, content) : flag \in flags, sc \in scs, content \in contents}

\* call_result values that are no objects
NonObjects == {Null, Str(<<"ok">>), List(<<>>)}

----------------------------------------------------------------------------
(* The classifier functions of Evaluator *)

\* what a call returns: an exception, or its value
Raised == [raised |-> TRUE, ok |-> FALSE, reason |-> "exception"]
Returned(ok, reason) == [raised |-> FALSE, ok |-> ok, reason |-> reason]

\* {"error": "<message>"} as built by the client for its own failures
ClientError == Obj([error |-> Str(<<"ok">>)])

\* call_result.get("structuredContent", {})
StructuredContentOf(r) == Get(r, "structuredContent", EmptyObj)

\* structured_content.get(...) on a structuredContent that is no object
TechnicalRaises(call_success, r) ==
    /\ call_success
    /\ r.t = "obj"
    /\ ~Truthy(Get(r, "isError", Bool(FALSE)))
    /\ StructuredContentOf(r).t # "obj"

_evaluate_technical_success(call_success, r) ==
    IF ~call_success THEN FALSE
    ELSE IF r.t = "obj"
            THEN IF Truthy(Get(r, "isError", Bool(FALSE))) THEN FALSE
                 ELSE LET result_data == Get(StructuredContentOf(r), "result", Str(<<>>))
                      IN IF result_data.t = "str" /\ startswith(result_data.s, "Error:")
                            THEN FALSE
                            ELSE TRUE
            ELSE FALSE

\* the loop over the items of a content list: "true" at the first text item
\* with a text that is not blank and no "Error:" text, "raise" at a text that
\* has no strip(), "false" at the end of the list
RECURSIVE ContentLoop(_)
ContentLoop(items) ==
    IF items = <<>> THEN "false"
    ELSE LET item == Head(items) IN
         IF item.t = "obj" /\ Get(item, "type", Null) = Str(<<"text">>)
            THEN LET text == Get(item, "text", Str(<<>>)) IN
                 IF text.t # "str" THEN "raise"
                 ELSE IF strip(text.s) # <<>> /\ ~startswith(strip(text.s), "Error:")
                         THEN "true"
                         ELSE ContentLoop(Tail(items))
            ELSE ContentLoop(Tail(items))

\* the check of the content member at the end of _has_meaningful_content
ContentListMeaningful(r) ==
    LET content == Get(r, "content", List(<<>>)) IN
    IF content.t = "list" /\ content.e # <<>> THEN ContentLoop(content.e) ELSE "false"

\* `v is not None and v != "" and v != []`
Counted(v) == v # Null /\ v # Str(<<>>) /\ v # List(<<>>)

\* any(v for v in values if Counted(v)): any() tests the values it is given
AnyValue(o) == \E k \in DOMAIN o.f : Counted(o.f[k]) /\ Truthy(o.f[k])

\* a data member that counts when it is not empty, whatever it is
DataMeaningful_any(data) == Truthy(data)

\* `isinstance(data, list) and len(data) > 0`
DataMeaningful(data) == data.t = "list" /\ Len(data.e) > 0

\* _has_meaningful_content as "true", "false" or "raise"
MeaningfulOutcome(r) ==
    IF r.t # "obj" THEN "false"
    ELSE LET structured_content == StructuredContentOf(r) IN
         IF structured_content.t # "obj" THEN ContentListMeaningful(r)
         ELSE LET result_data == Get(structured_content, "result", Null) IN
              CASE result_data.t = "str" ->
                     LET s == strip(result_data.s) IN
                     IF s = <<>> \/ LowerIn(s, {"none", "null", "empty"}) THEN "false"
                     ELSE IF startswith(s, "Error:") \/ startswith(s, "Failed:") THEN "false"
                     ELSE ContentListMeaningful(r)
                [] result_data.t = "obj" ->
                     IF "data" \in DOMAIN result_data.f
                        THEN IF DataMeaningful(result_data.f["data"]) THEN "true" ELSE "false"
                        ELSE IF DOMAIN result_data.f # {} /\ AnyValue(result_data)
                                THEN "true" ELSE "false"
                [] result_data.t = "list" ->
                     IF Len(result_data.e) > 0 THEN "true" ELSE "false"
                [] OTHER -> ContentListMeaningful(r)

_has_meaningful_content(r) == MeaningfulOutcome(r) = "true"

MeaningfulRaises(r) == MeaningfulOutcome(r) = "raise"

_basic_content_validation(r) ==
    IF MeaningfulRaises(r) THEN Raised
    ELSE IF ~_has_meaningful_content(r) THEN Returned(FALSE, "No meaningful content found")
    ELSE IF StructuredContentOf(r).t # "obj" THEN Raised
    ELSE LET result_data == Get(StructuredContentOf(r), "result", Str(<<>>)) IN
         IF /\ result_data.t = "str"
            /\ \E indicator \in ErrorIndicators : Contains(strip(result_data.s), indicator)
            THEN Returned(FALSE, "Result contains error indicators")
            ELSE Returned(TRUE, "Basic validation passed")

\* field_path.split("."): the fields of a path, a path being the sequence of
\* its names and dots
RECURSIVE split(_)
split(path) ==
    IF \A i \in 1..Len(path) : path[i] # "." THEN <<path>>
    ELSE LET i == CHOOSE j \in 1..Len(path) :
                     path[j] = "." /\ \A h \in 1..(j - 1) : path[h] # "."
         IN <<SubSeq(path, 1, i - 1)>> \o split(SubSeq(path, i + 1, Len(path)))

\* `field not in current` for a field that is one name; a field that is the
\* empty text or several names is no key of the objects of the model
HasField(o, field) == Len(field) = 1 /\ field[1] \in DOMAIN o.f

RECURSIVE Descend(_, _)
Descend(current, fields) ==
    IF fields = <<>> THEN TRUE
    ELSE IF current.t # "obj" \/ ~HasField(current, Head(fields)) THEN FALSE
    ELSE Descend(current.f[Head(fields)[1]], Tail(fields))

_check_field_exists(data, field_path) == Descend(data, split(field_path))

\* expected_result: None, or an object with an optional type, min_items and
\* required_fields
NoExpectation == [t |-> "null"]
Expectation(type, min_items, required_fields) ==
    [t |-> "obj", type |-> type, min_items |-> min_items,
     required_fields |-> required_fields]

\* `if expected_result:` is false for None and for the empty object
HasExpectation(expected) ==
    /\ expected.t = "obj"
    /\ \/ expected.type # "absent"
       \/ expected.min_items # Absent
       \/ expected.required_fields # Absent

\* rules.get("min_items", 0)
MinItems(rules) == IF rules.min_items = Absent THEN 0 ELSE rules.min_items.n

\* rules.get("required_fields", [])
RequiredFields(rules) ==
    IF rules.required_fields = Absent THEN <<>> ELSE rules.required_fields.e

_validate_content_check(r, rules) ==
    IF r.t # "obj" \/ StructuredContentOf(r).t # "obj" THEN Raised
    ELSE LET given == Get(StructuredContentOf(r), "result", Null)
             result_data == IF given.t = "str" /\ ParsedObject(given.s) # Absent
                               THEN ParsedObject(given.s) ELSE given
         IN IF result_data.t # "obj"
               THEN Returned(FALSE, "Result is not a valid data structure")
            ELSE IF /\ "data" \in DOMAIN result_data.f
                    /\ result_data.f["data"].t = "list"
                    /\ Len(result_data.f["data"].e) < MinItems(rules)
               THEN Returned(FALSE, "Expected at least min_items items")
            ELSE IF \E i \in 1..Len(RequiredFields(rules)) :
                       ~_check_field_exists(result_data, RequiredFields(rules)[i])
               THEN Returned(FALSE, "Required field is missing")
            ELSE Returned(TRUE, "Content validation passed")

_validate_data_structure(r, rules) == _basic_content_validation(r)

\* expected_result.get("type", "basic")
_validate_against_expected(r, expected) ==
    IF expected.type = "content_check" THEN _validate_content_check(r, expected)
    ELSE IF expected.type = "data_structure" THEN _validate_data_structure(r, expected)
    ELSE _basic_content_validation(r)

_validate_content_quality(r, expected) ==
    IF MeaningfulRaises(r) THEN Raised
    ELSE IF ~_has_meaningful_content(r) THEN Returned(FALSE, "Empty or meaningless result")
    ELSE IF HasExpectation(expected) THEN _validate_against_expected(r, expected)
    ELSE _basic_content_validation(r)

ContentRaises(r, expected) == _validate_content_quality(r, expected).raised

\* tool_args and expected_parameters: objects over the parameter names
ParamNames == {"q", "k"}

ParamValues == {Null, Str(<<>>), Str(<<" ">>), Str(<<"ok">>), Num(0)}

ToolArgs == {Members([q |-> u, k |-> v]) : u \in ParamValues \cup {Absent},
                                           v \in ParamValues \cup {Absent}}

Requirements == {Str(<<"required">>), Str(<<"optional">>)}

ExpectedParameters ==
    {Null} \cup {Members([q |-> u, k |-> v]) : u \in Requirements \cup {Absent},
                                             v \in Requirements \cup {Absent}}

\* a check of the key only
BadParam_key(actual_params, param_name) == param_name \notin DOMAIN actual_params.f

\* the value of a required parameter is missing or empty
BadParam(actual_params, param_name) ==
    \/ param_name \notin DOMAIN actual_params.f
    \/ LET param_value == actual_params.f[param_name] IN
       \/ param_value = Null
       \/ param_value.t = "str" /\ strip(param_value.s) = <<>>

\* the loop over expected_params.items(): False at the first required
\* parameter that is bad, True at the end
RECURSIVE ParamLoop(_, _, _)
ParamLoop(actual_params, expected_params, names) ==
    IF names = {} THEN TRUE
    ELSE LET param_name == CHOOSE n \in names : TRUE IN
         IF /\ expected_params.f[param_name] = Str(<<"required">>)
            /\ BadParam(actual_params, param_name)
            THEN FALSE
            ELSE ParamLoop(actual_params, expected_params, names \ {param_name})

_validate_parameters(actual_params, expected_params) ==
    IF ~Truthy(expected_params) THEN TRUE
    ELSE ParamLoop(actual_params, expected_params, DOMAIN expected_params.f)

\* the expected_result values of the cases
RequiredFieldLists ==
    {<<>>, << <<"a">> >>, << <<"a", ".", "b">> >>, << <<"b">> >>,
     << <<"data">>, <<"a", ".", "b">> >>}

Expectations ==
    {NoExpectation, Expectation("absent", Absent, Absent),
     Expectation("data_structure", Absent, Absent),
     Expectation("other", Absent, Absent), Expectation("absent", Num(1), Absent)}
        \cup {Expectation("content_check", m, rf) :
                 m \in {Absent} \cup {Num(n) : n \in 1..MaxItems},
                 rf \in {Absent} \cup {List(e) : e \in RequiredFieldLists}}

\* the results a tool call of a case returns
CallResults ==
    CallResultObjects({Absent, Bool(TRUE)},
                      StructuredContents({Absent, Str(<<"ok">>), Str(<<"Error:">>),
                                          Str(<<"Invalid">>), Members([data |-> ListOf(1)]),
                                          Members([data |-> ListOf(0)])}),
                      {Absent, List(<<Obj([type |-> Str(<<"text">>), text |-> Str(<<"ok">>)])>>)})

\* an overall verdict that one of the two layers suffices for
OverallSuccess_or(technical_success, content_quality_valid) ==
    technical_success \/ content_quality_valid

OverallSuccess(technical_success, content_quality_valid) ==
    technical_success /\ content_quality_valid

----------------------------------------------------------------------------
(* ToolRegistry *)

\* The catalog self.tools is a sequence of entries [name, tool] with distinct
\* names, in the order in which the names were first inserted.
Entry(name, tool) == [name |-> name, tool |-> tool]

RECURSIVE Names(_)
Names(catalog) ==
    IF catalog = <<>> THEN {} ELSE {Head(catalog).name} \cup Names(Tail(catalog))

\* self.tools[name] = tool
Put(catalog, name, tool) ==
    IF name \in Names(catalog)
       THEN [i \in 1..Len(catalog) |->
                IF catalog[i].name = name THEN Entry(name, tool) ELSE catalog[i]]
       ELSE Append(catalog, Entry(name, tool))

\* a clear that leaves the catalog as it is
clear_keep(catalog) == catalog

\* self.tools.clear()
clear(catalog) == <<>>

\* name = tool.get("name", ""); if name: self.tools[name] = tool
RegisterOne(catalog, tool) ==
    LET name == Get(tool, "name", Str(<<>>)) IN
    IF Truthy(name) THEN Put(catalog, name, tool) ELSE catalog

\* register_tools: the catalog after the loop, and whether tool.get raised on
\* an item that is no object (the items before it stay registered)
RECURSIVE register_tools(_, _)
register_tools(catalog, mcp_tools) ==
    IF mcp_tools = <<>> THEN [raised |-> FALSE, tools |-> catalog]
    ELSE IF Head(mcp_tools).t # "obj" THEN [raised |-> TRUE, tools |-> catalog]
    ELSE register_tools(RegisterOne(catalog, Head(mcp_tools)), Tail(mcp_tools))

\* self.tools.get(name, {})
get_tool(catalog, name) ==
    IF name \in Names(catalog)
       THEN (CHOOSE e \in {catalog[i] : i \in 1..Len(catalog)} : e.name = name).tool
       ELSE EmptyObj

\* {"type": "object", "properties": {}, "required": []}
EmptySchema ==
    Obj([type |-> Str(<<"object">>), properties |-> EmptyObj, required |-> List(<<>>)])

\* `"type" in input_schema` raises for None (and for numbers and booleans)
ConvertRaises(input_schema) == input_schema.t \in {"null", "bool", "num"}

\* a wrapping that forgets the required list
Wrap_norequired(input_schema) ==
    Obj([type |-> Str(<<"object">>), properties |-> input_schema.f["properties"],
         required |-> List(<<>>)])

\* lines 83-89
Wrap(input_schema) ==
    Obj([type |-> Str(<<"object">>), properties |-> input_schema.f["properties"],
         required |-> Get(input_schema, "required", List(<<>>))])

_convert_input_schema(input_schema) ==
    IF input_schema.t # "obj"
       THEN EmptySchema               \* "" and []: `not input_schema`; other texts: fallback
    ELSE IF "type" \in DOMAIN input_schema.f /\ input_schema.f["type"] = Str(<<"object">>)
       THEN input_schema
    ELSE IF ~Truthy(input_schema) THEN EmptySchema
    ELSE IF "properties" \in DOMAIN input_schema.f THEN Wrap(input_schema)
    ELSE EmptySchema

\* tool_def.get("inputSchema", {})
InputSchemaOf(tool_def) == Get(tool_def, "inputSchema", EmptyObj)

\* one element of the list to_openai_schema returns
OpenaiTool(entry) ==
    Obj([type |-> Str(<<"function">>),
         function |-> Obj([name |-> entry.name,
                           description |-> Get(entry.tool, "description", Str(<<>>)),
                           parameters |-> _convert_input_schema(InputSchemaOf(entry.tool))])])

\* to_openai_schema: the list, or an exception of _convert_input_schema
to_openai_schema(catalog) ==
    IF \E i \in 1..Len(catalog) : ConvertRaises(InputSchemaOf(catalog[i].tool))
       THEN [raised |-> TRUE, value |-> <<>>]
       ELSE [raised |-> FALSE, value |-> [i \in 1..Len(catalog) |-> OpenaiTool(catalog[i])]]

\* the properties member of an input schema
SomeProperties == Obj([x |-> Obj([type |-> Str(<<"string">>)])])

\* the inputSchema members of the tools of a tools/list response
InputSchemas ==
    {Absent, Null, Str(<<"ok">>), EmptyObj, Obj([x |-> Num(1)])}
        \cup {Members([type |-> ty, properties |-> pr, required |-> rq]) :
                 ty \in {Absent, Str(<<"object">>), Str(<<"string">>)},
                 pr \in {Absent, SomeProperties},
                 rq \in {Absent, List(<<Str(<<"x">>)>>)}}

\* a tool of a tools/list response
Tool(name, inputSchema) == Members([name |-> Str(<<name>>), inputSchema |-> inputSchema])

\* the items of the longer tools lists: named tools (one name with two
\* definitions), a tool without a name, and an item that is no object
ListedTools ==
    {Tool("a", Absent), Tool("a", Obj([properties |-> SomeProperties])), Tool("b", Absent),
     EmptyObj, Str(<<"ok">>)}

\* the tools lists of the responses: the lists of up to MaxTools of these
\* items, and the lists of one tool with any input schema or an empty name
ToolLists ==
    SeqsUpTo(ListedTools, MaxTools)
        \cup {<<Tool("a", sc)>> : sc \in InputSchemas}
        \cup {<<Obj([name |-> Str(<<>>)])>>}

----------------------------------------------------------------------------
(* Evaluator.summarize *)

RECURSIVE gcd(_, _)
gcd(a, b) == IF b = 0 THEN a ELSE gcd(b, a % b)

\* a / b for b > 0, as a fraction in lowest terms
TrueDiv(a, b) == [num |-> a \div gcd(a, b), den |-> b \div gcd(a, b)]

\* 0.0
Zero == [num |-> 0, den |-> 1]

\* a rate that is rounded down to a whole number
Rate_floor(count, total_cases) ==
    IF total_cases > 0 THEN [num |-> count \div total_cases, den |-> 1] ELSE Zero

\* count / total_cases if total_cases > 0 else 0.0
Rate(count, total_cases) == IF total_cases > 0 THEN TrueDiv(count, total_cases) ELSE Zero

\* the records of the lines for which result.get(key, False) is true
RECURSIVE CountOf(_, _)
CountOf(results, key) ==
    IF results = <<>> THEN 0
    ELSE (IF Truthy(Get(Head(results), key, Bool(FALSE))) THEN 1 ELSE 0)
            + CountOf(Tail(results), key)

\* the summary of a log whose lines are the given records
summarize(results) ==
    LET total_cases == Len(results)
        correct_selections == CountOf(results, "selection_correct")
        successful_calls == CountOf(results, "call_success")
        correct_parameters == CountOf(results, "parameter_correct")
    IN [total_cases |-> total_cases,
        selection_accuracy |-> Rate(correct_selections, total_cases),
        call_success_rate |-> Rate(successful_calls, total_cases),
        parameter_accuracy |-> Rate(correct_parameters, total_cases),
        correct_selections |-> correct_selections,
        successful_calls |-> successful_calls,
        correct_parameters |-> correct_parameters,
        detailed_results |-> results]

\* the records of a log: each verdict true, false or not in the record
LogRecords ==
    {Members([selection_correct |-> a, call_success |-> b, parameter_correct |-> c]) :
        a \in {Absent, Bool(FALSE), Bool(TRUE)}, b \in {Absent, Bool(FALSE), Bool(TRUE)},
        c \in {Absent, Bool(FALSE), Bool(TRUE)}}

----------------------------------------------------------------------------
(* Evaluator.evaluate_case *)

InitialResult(id) ==
    [case_id |-> id, chosen_tool |-> "null", selection_correct |-> FALSE,
     call_success |-> FALSE, parameter_correct |-> FALSE,
     content_quality_check |-> FALSE, error_message |-> Null,
     has_technical_success |-> FALSE, technical_success |-> FALSE]

\* what llm_client.generate returned: an "error" member or none, and the
\* tool calls in the order the model gave them
LLMResponse(error, tool_calls) == [asked |-> TRUE, error |-> error, tool_calls |-> tool_calls]

\* the model has not been asked
NoResponse == [asked |-> FALSE, error |-> Absent, tool_calls |-> <<>>]

\* the texts str(e) of a failed model call
ModelErrors == {<<>>, <<"Invalid">>}

\* the case and the response the model gave for it
NewCase(id) == [id |-> id, llm_response |-> NoResponse]

\* entry: the initial record, a fresh MCPStdioClient, __enter__, initialize();
\* evaluate_case returns to the frames `rest`
Enter(rest) ==
    /\ case' = NewCase(case.id + 1)
    /\ result' = InitialResult(case.id + 1)
    /\ process' = None
    /\ request_id' = 0
    /\ initialized' = FALSE
    /\ nprocs' = 0
    /\ signals' = <<>>
    /\ alive' = FALSE
    /\ pipe' = <<>>
    /\ wire' = <<>>
    /\ line' = NoLine
    /\ elapsed' = 0
    /\ ret' = Ret(FALSE, "none")
    /\ stack' = <<"initialize", "ev_inited">> \o rest
    /\ log' = log

\* evaluate_case called for one case after the other
EvaluateCase ==
    /\ stack = <<>>
    /\ case.id < MaxCases
    /\ Enter(<<>>)
    /\ UNCHANGED classVars

\* a return that leaves the block without __exit__
EarlyReturn_nostop == stack' = <<"ev_return">> \o Tail(stack)

\* `return result` inside the with block: __exit__, finally, no _log_result
EarlyReturn == stack' = <<"stop", "ev_return">> \o Tail(stack)

EvInited ==
    /\ Top = "ev_inited"
    /\ IF ~ret.ok
          THEN /\ result' = [result EXCEPT !.error_message =
                                          Str(<<"Failed to initialize MCP client">>)]
               /\ EarlyReturn
          ELSE /\ Call("list_tools", "ev_listed")
               /\ result' = result
    /\ UNCHANGED <<clientVars, ret, elapsed, line, pipe, alive, nprocs, signals, wire, log, case, classVars>>

\* the values of _validate_parameters(tool_args, expected_parameters)
ParameterVerdicts ==
    {_validate_parameters(tool_args, expected_parameters) :
        tool_args \in ToolArgs, expected_parameters \in ExpectedParameters}

\* a model error that is recorded with a chosen tool
ModelError_chosen(r, error) ==
    [r EXCEPT !.error_message = Str(<<"LLM error: ">> \o error.s), !.chosen_tool = "tool"]

\* "error" in llm_response
ModelError(r, error) == [r EXCEPT !.error_message = Str(<<"LLM error: ">> \o error.s)]

\* an absent tool call that is recorded as an error
NoToolCalls_message(r) ==
    [r EXCEPT !.selection_correct = FALSE, !.call_success = FALSE,
              !.error_message = Str(<<"No tool call">>)]

\* not tool_calls
NoToolCalls(r) == [r EXCEPT !.selection_correct = FALSE, !.call_success = FALSE]

\* a runner that goes on after a tools/list that failed
ListFailed_never(r) == FALSE

\* `if not success` after list_tools()
ListFailed(r) == ~r.ok

\* a tool call of the model: its name, whether the case expects that tool, and
\* what _validate_parameters gives for its arguments
ToolCall(name, in_expected_tools, arguments_valid) ==
    [name |-> name, in_expected_tools |-> in_expected_tools,
     arguments_valid |-> arguments_valid]

\* a later tool call that differs from the call c in its name and in both checks
Differing(c) == ToolCall("other", ~c.in_expected_tools, ~c.arguments_valid)

\* the non-empty tool_calls lists of a response: one call with any outcome of
\* the two checks, or a call that passes both (or fails both) followed by a
\* call that differs
ToolCallLists ==
    LET firsts == {ToolCall("tool", sel, par) : sel \in BOOLEAN, par \in ParameterVerdicts}
    IN {<<c>> : c \in firsts}
          \cup {<<c, Differing(c)>> : c \in {f \in firsts : f.in_expected_tools = f.arguments_valid}}

\* a runner that uses the last tool call
FirstCall_last(tool_calls) == tool_calls[Len(tool_calls)]

\* first_call = tool_calls[0]
FirstCall(tool_calls) == tool_calls[1]

\* register the tools, ask the model, record its first tool call, call_tool()
EvListed ==
    /\ Top = "ev_listed"
    /\ IF ListFailed(ret)
          THEN /\ result' = [result EXCEPT !.error_message =
                                          Str(<<"Failed to list tools from MCP server">>)]
               /\ EarlyReturn
               /\ ret' = ret
               /\ case' = case
          ELSE \/ \* register_tools on a tools value that is no list of objects
                  /\ Raise
                  /\ result' = result
                  /\ case' = case
               \/ \* the model call fails
                  /\ \E e \in ModelErrors :
                        /\ case' = [case EXCEPT !.llm_response = LLMResponse(Str(e), <<>>)]
                        /\ result' = ModelError(result, Str(e))
                  /\ EarlyReturn
                  /\ ret' = ret
               \/ \* the model returns no tool call
                  /\ case' = [case EXCEPT !.llm_response = LLMResponse(Absent, <<>>)]
                  /\ result' = NoToolCalls(result)
                  /\ EarlyReturn
                  /\ ret' = ret
               \/ \* the model returns tool calls; the first is used
                  /\ \E tool_calls \in ToolCallLists :
                        LET first_call == FirstCall(tool_calls) IN
                        /\ case' = [case EXCEPT !.llm_response = LLMResponse(Absent, tool_calls)]
                        /\ result' = [result EXCEPT
                                         !.chosen_tool = first_call.name,
                                         !.selection_correct = first_call.in_expected_tools,
                                         !.parameter_correct = first_call.arguments_valid]
                  /\ Call("call_tool", "ev_called")
                  /\ ret' = ret
    /\ UNCHANGED <<clientVars, elapsed, line, pipe, alive, nprocs, signals, wire, log, classVars>>

\* the call_result values call_tool can have returned
CallResultOf(r) ==
    IF r.ok
       THEN IF r.data = "badresult" THEN NonObjects ELSE CallResults
       ELSE IF r.data = "rpc_error" THEN CallResults \cup NonObjects ELSE {ClientError}

\* call_result.get("structuredContent", {}).get("result", "") at line 140
ErrorMessageRaises(call_success, r, technical_success) ==
    /\ ~technical_success
    /\ call_success
    /\ r.t = "obj"
    /\ StructuredContentOf(r).t # "obj"

\* f"{value}": a string's text, or the repr of any other value
Format(value) == IF value.t = "str" THEN value.s ELSE <<"repr">>

\* an error text that is reported without the server's words
ErrorText_generic(actual_result) == Str(<<"Technical failure: ", "Error:">>)

ErrorText(actual_result) == Str(<<"Technical failure: ">> \o Format(actual_result))

ErrorMessage(call_success, r, technical_success, content_reason, content_quality_valid) ==
    IF ~technical_success
       THEN IF ~call_success
               THEN Str(<<"Technical failure: ", "Tool call failed: ">> \o Format(r))
            ELSE IF r.t = "obj"
                    THEN LET actual_result == Get(StructuredContentOf(r), "result", Str(<<>>))
                         IN IF actual_result.t = "str" /\ startswith(actual_result.s, "Error:")
                               THEN ErrorText(actual_result)
                               ELSE Str(<<"Technical failure: ", "Invalid response format">>)
                    ELSE Str(<<"Technical failure: ", "Invalid response format">>)
       ELSE IF ~content_quality_valid
               THEN Str(<<"Content quality failure: ", content_reason>>)
               ELSE Null

\* lines 123-149 for one call_result and expected_result: where an exception
\* is raised ("classifier": before the verdicts are stored, "message": after),
\* and the verdicts
Verdicts(call_success, r, expected) ==
    IF TechnicalRaises(call_success, r) \/ ContentRaises(r, expected)
       THEN [raised |-> "classifier", technical_success |-> FALSE,
             content_quality_valid |-> FALSE, error_message |-> Null]
       ELSE LET technical_success == _evaluate_technical_success(call_success, r)
                content_quality_valid == _validate_content_quality(r, expected).ok
                content_reason == _validate_content_quality(r, expected).reason
            IN IF ErrorMessageRaises(call_success, r, technical_success)
                  THEN [raised |-> "message", technical_success |-> technical_success,
                        content_quality_valid |-> content_quality_valid,
                        error_message |-> Null]
                  ELSE [raised |-> "none", technical_success |-> technical_success,
                        content_quality_valid |-> content_quality_valid,
                        error_message |-> ErrorMessage(call_success, r, technical_success,
                                                       content_reason,
                                                       content_quality_valid)]

\* a selection that counts as correct when the tool is not expected
SelectionCorrect_miss(chosen_tool, expected_tools) == chosen_tool \notin expected_tools

\* chosen_tool in expected_tools
SelectionCorrect(chosen_tool, expected_tools) == chosen_tool \in expected_tools

\* lines 105-149 for one first tool call and one return of call_tool: the
\* verdicts stored in the result, or where an exception is raised
CallOutcome(chosen_tool, expected_tools, tool_args, expected_parameters, call_success, r, expected) ==
    LET v == Verdicts(call_success, r, expected) IN
    [raised |-> v.raised,
     selection_correct |-> SelectionCorrect(chosen_tool, expected_tools),
     parameter_correct |-> _validate_parameters(tool_args, expected_parameters),
     technical_success |-> v.technical_success,
     content_quality_check |-> v.content_quality_valid,
     call_success |-> OverallSuccess(v.technical_success, v.content_quality_valid),
     error_message |-> v.error_message]

\* what call_tool returns
CallReturns ==
    {Ret(TRUE, "result"), Ret(TRUE, "badresult")}
        \cup {Ret(FALSE, d) : d \in SendFailures \cup {"not_initialized"}}

\* the verdicts of the cases, by what call_tool returned
CallVerdicts ==
    [c \in CallReturns |->
        {Verdicts(c.ok, r, expected) : r \in CallResultOf(c), expected \in Expectations}]

EvCalled ==
    /\ Top = "ev_called"
    /\ \E v \in CallVerdicts[ret] :
          LET stored == [result EXCEPT
                   !.has_technical_success = TRUE,
                   !.technical_success = v.technical_success,
                   !.content_quality_check = v.content_quality_valid,
                   !.call_success = OverallSuccess(v.technical_success,
                                                   v.content_quality_valid)]
          IN CASE v.raised = "classifier" ->
                    /\ Raise
                    /\ result' = result
               [] v.raised = "message" ->
                    /\ Raise
                    /\ result' = stored
               [] OTHER ->
                    /\ result' = [stored EXCEPT !.error_message = v.error_message]
                    /\ stack' = <<"stop", "ev_log">> \o Tail(stack)
                    /\ ret' = ret
    /\ UNCHANGED <<clientVars, elapsed, line, pipe, alive, nprocs, signals, wire, log, case, classVars>>

\* an exception leaves the with block: __exit__, then the except clause
EvExitExc ==
    /\ Top = "ev_exit_exc"
    /\ stack' = <<"stop", "ev_except">> \o Tail(stack)
    /\ UNCHANGED <<clientVars, ret, elapsed, line, pipe, alive, nprocs, signals, wire, evalVars>>

EvExcept ==
    /\ Top = "ev_except"
    /\ result' = [result EXCEPT !.error_message = Str(<<"Evaluation error: ", "repr">>)]
    /\ Goto("ev_log")
    /\ UNCHANGED <<clientVars, ret, elapsed, line, pipe, alive, nprocs, signals, wire, log, case, classVars>>

_log_result(l, r) == Append(l, r)

EvLog ==
    /\ Top = "ev_log"
    /\ log' = _log_result(log, result)
    /\ Return(Ret(TRUE, "result"))
    /\ UNCHANGED <<clientVars, elapsed, line, pipe, alive, nprocs, signals, wire, result, case, classVars>>

EvReturn ==
    /\ Top = "ev_return"
    /\ Return(Ret(TRUE, "result"))
    /\ UNCHANGED <<clientVars, elapsed, line, pipe, alive, nprocs, signals, wire, evalVars>>

EvalStep == EvInited \/ EvListed \/ EvCalled \/ EvExitExc \/ EvExcept \/ EvLog \/ EvReturn

TransportStep ==
    \/ Start \/ Stop \/ StopWait
    \/ SendRequest \/ LoopCheck \/ ReadLine \/ Sleep \/ Blocked
    \/ Initialize \/ InitStarted \/ InitResp \/ InitNotify \/ InitMark
    \/ ListTools \/ LtResp
    \/ CallTool \/ CtResp

\* list_tools and call_tool on a client that is not marked ready
AutoInitStep == LtInited \/ CtInited

ClientStep == TransportStep \/ AutoInitStep

NoResult == InitialResult(0)
NoCase == NewCase(0)

\* no classifier function called
NoInput == [fn |-> "none"]
NoOutput == [done |-> FALSE]

Idle ==
    /\ process = None
    /\ request_id = 0
    /\ initialized = FALSE
    /\ stack = <<>>
    /\ ret = Ret(FALSE, "none")
    /\ elapsed = 0
    /\ line = NoLine
    /\ pipe = <<>>
    /\ alive = FALSE
    /\ nprocs = 0
    /\ signals = <<>>
    /\ wire = <<>>
    /\ result = NoResult
    /\ log = <<>>
    /\ case = NoCase
    /\ output = NoOutput
    /\ tools = <<>>

Init == Idle /\ input = NoInput

Next == CallerInvoke \/ ClientStep \/ ServerWrite \/ ServerExit

Spec == Init /\ [][Next]_vars

EvalNext == EvaluateCase \/ EvalStep \/ TransportStep \/ ServerWrite \/ ServerExit

EvalSpec == Init /\ [][EvalNext]_vars

----------------------------------------------------------------------------
(* The classifier functions applied to arguments of every kind *)

\* content members of the arguments of _validate_content_quality
QualityContents ==
    {Absent, List(<<Obj([type |-> Str(<<"text">>), text |-> Str(<<"ok">>)])>>)}

\* the arguments of one call of a classifier function
TechnicalInput(cs, r) == [fn |-> "technical", call_success |-> cs, call_result |-> r]
MeaningfulInput(r) == [fn |-> "meaningful", call_result |-> r]
QualityInput(r, e) == [fn |-> "quality", call_result |-> r, expected |-> e]
ParameterInput(a, e) == [fn |-> "parameters", tool_args |-> a, expected_parameters |-> e]
CallInput(et, p, cs, r, e) ==
    [fn |-> "call", chosen_tool |-> "tool", expected_tools |-> et,
     tool_args |-> p.tool_args, expected_parameters |-> p.expected_parameters,
     call_success |-> cs, call_result |-> r, expected |-> e]

SummarizeInput(l) == [fn |-> "summarize", log |-> l]

\* the arguments of the first tool call and the expected_parameters of a case
CaseParameters ==
    {[tool_args |-> EmptyObj, expected_parameters |-> Null]}
        \cup {[tool_args |-> Members([q |-> Str(s)]),
               expected_parameters |-> Members([q |-> Str(<<"required">>)])] :
                  s \in {<<" ">>, <<"ok">>}}

\* the expected_tools of a case
ExpectedTools == {{"tool"}, {"other"}}

\* the arguments drawn for the calls: a call_result that is no object, or an
\* object with any structuredContent, and with any isError flag (technical
\* success), any content (meaningful content) or any expectation (quality)
ClassInputs ==
    \/ \E r \in NonObjects :
          \/ \E cs \in BOOLEAN : input = TechnicalInput(cs, r)
          \/ input = MeaningfulInput(r)
          \/ \E e \in Expectations : input = QualityInput(r, e)
    \/ \E sc \in StructuredContents(ResultValues) :
          \/ \E cs \in BOOLEAN, flag \in {Absent, Bool(FALSE), Bool(TRUE)} :
                input = TechnicalInput(cs, CallResult(flag, sc, Absent))
          \/ \E content \in ContentValues :
                input = MeaningfulInput(CallResult(Absent, sc, content))
          \/ \E content \in QualityContents, e \in Expectations :
                input = QualityInput(CallResult(Absent, sc, content), e)
    \/ \E a \in ToolArgs, e \in ExpectedParameters : input = ParameterInput(a, e)
    \/ \E l \in SeqsUpTo(LogRecords, MaxLog) : input = SummarizeInput(l)
    \/ \E et \in ExpectedTools, p \in CaseParameters, e \in Expectations :
          \/ input = CallInput(et, p, FALSE, ClientError, e)
          \/ \E r \in NonObjects : input = CallInput(et, p, TRUE, r, e)
          \/ \E flag \in {Bool(FALSE), Bool(TRUE)},
                sc \in StructuredContents(ResultValues), content \in QualityContents :
                input = CallInput(et, p, TRUE, CallResult(flag, sc, content), e)

\* the call has returned (or raised)
Done(outcome) == [done |-> TRUE, raised |-> outcome.raised, ok |-> outcome.ok,
                  reason |-> outcome.reason]

ApplyTechnical ==
    /\ input.fn = "technical"
    /\ ~output.done
    /\ output' = IF TechnicalRaises(input.call_success, input.call_result)
                    THEN Done(Raised)
                    ELSE Done(Returned(_evaluate_technical_success(input.call_success,
                                                                   input.call_result), "none"))
    /\ UNCHANGED <<clientVars, stack, ret, elapsed, line, pipe, alive, nprocs, signals, wire,
                   result, log, case, input, tools>>

ApplyMeaningful ==
    /\ input.fn = "meaningful"
    /\ ~output.done
    /\ output' = IF MeaningfulRaises(input.call_result)
                    THEN Done(Raised)
                    ELSE Done(Returned(_has_meaningful_content(input.call_result), "none"))
    /\ UNCHANGED <<clientVars, stack, ret, elapsed, line, pipe, alive, nprocs, signals, wire,
                   result, log, case, input, tools>>

ApplyQuality ==
    /\ input.fn = "quality"
    /\ ~output.done
    /\ output' = Done(_validate_content_quality(input.call_result, input.expected))
    /\ UNCHANGED <<clientVars, stack, ret, elapsed, line, pipe, alive, nprocs, signals, wire,
                   result, log, case, input, tools>>

ApplyParameters ==
    /\ input.fn = "parameters"
    /\ ~output.done
    /\ output' = Done(Returned(_validate_parameters(input.tool_args,
                                                     input.expected_parameters), "none"))
    /\ UNCHANGED <<clientVars, stack, ret, elapsed, line, pipe, alive, nprocs, signals, wire,
                   result, log, case, input, tools>>

\* lines 105-149 of evaluate_case
ApplyCall ==
    /\ input.fn = "call"
    /\ ~output.done
    /\ output' = [done |-> TRUE,
                  result |-> CallOutcome(input.chosen_tool, input.expected_tools,
                                         input.tool_args, input.expected_parameters,
                                         input.call_success, input.call_result,
                                         input.expected)]
    /\ UNCHANGED <<clientVars, stack, ret, elapsed, line, pipe, alive, nprocs, signals, wire,
                   result, log, case, input, tools>>

ApplySummarize ==
    /\ input.fn = "summarize"
    /\ ~output.done
    /\ output' = [done |-> TRUE, summary |-> summarize(input.log)]
    /\ UNCHANGED <<clientVars, stack, ret, elapsed, line, pipe, alive, nprocs, signals, wire,
                   result, log, case, input, tools>>

ClassInit == Idle /\ ClassInputs

ClassNext ==
    \/ ApplyTechnical \/ ApplyMeaningful \/ ApplyQuality \/ ApplyParameters \/ ApplyCall
    \/ ApplySummarize

ClassSpec == ClassInit /\ [][ClassNext]_vars

----------------------------------------------------------------------------
(* main.run_evaluation *)

\* the run over the loaded cases
RunInput(cases) == [fn |-> "run", cases |-> cases]

\* what load_test_cases can load from a line: a JSON object, or a JSON string
\* in which "case_id" occurs
CaseKinds == {"object", "text"}

\* what the run has printed: the cases announced, the count of cases without
\* error message, the completion report
NoReport == [done |-> FALSE, evaluated |-> <<>>, successful_cases |-> 0]

RunInit ==
    /\ process = None
    /\ request_id = 0
    /\ initialized = FALSE
    /\ stack = <<"run_evaluation">>
    /\ ret = Ret(FALSE, "none")
    /\ elapsed = 0
    /\ line = NoLine
    /\ pipe = <<>>
    /\ alive = FALSE
    /\ nprocs = 0
    /\ signals = <<>>
    /\ wire = <<>>
    /\ result = NoResult
    /\ log = <<>>
    /\ case = NoCase
    /\ output = NoReport
    /\ tools = <<>>
    /\ \E cases \in SeqsUpTo(CaseKinds, MaxCases) : input = RunInput(cases)

\* load_test_cases, LLMClient(...), Evaluator(...)
RunStart ==
    /\ Top = "run_evaluation"
    /\ IF input.cases = <<>>
          THEN stack' = <<>>                   \* "No valid test cases found"
          ELSE \/ stack' = <<>>                \* LLMClient raises
               \/ stack' = <<"run_loop">>
    /\ UNCHANGED <<clientVars, ret, elapsed, line, pipe, alive, nprocs, signals, wire, evalVars>>

\* for i, case in enumerate(cases, 1), and the report after the loop
RunLoop ==
    /\ Top = "run_loop"
    /\ IF case.id < Len(input.cases)
          THEN IF input.cases[case.id + 1] = "object"
                  THEN /\ Enter(<<"run_result">>)
                       /\ output' = [output EXCEPT !.evaluated = Append(@, case.id + 1)]
                  ELSE \* case.get raises outside the try block
                       /\ stack' = <<>>
                       /\ UNCHANGED <<clientVars, ret, elapsed, line, pipe, alive, nprocs,
                                      signals, wire, result, log, case, output>>
          ELSE /\ output' = [output EXCEPT !.done = TRUE]
               /\ stack' = <<>>
               /\ UNCHANGED <<clientVars, ret, elapsed, line, pipe, alive, nprocs, signals,
                              wire, result, log, case>>
    /\ UNCHANGED <<input, tools>>

\* if result.get("error_message"): ... else: ... successful_cases += 1
RunResult ==
    /\ Top = "run_result"
    /\ output' = IF Truthy(result.error_message)
                    THEN output
                    ELSE [output EXCEPT !.successful_cases = @ + 1]
    /\ Goto("run_loop")
    /\ UNCHANGED <<clientVars, ret, elapsed, line, pipe, alive, nprocs, signals, wire,
                   result, log, case, input, tools>>

\* the steps of the program
RunStep == RunStart \/ RunLoop \/ RunResult \/ EvalStep \/ TransportStep

RunNext == RunStep \/ ServerWrite \/ ServerExit

\* the program takes its next step whenever it has one; the child process
\* may write, exit or stay silent
RunSpec == RunInit /\ [][RunNext]_vars /\ WF_vars(RunStep)

----------------------------------------------------------------------------
(* The registry under the calls that evaluate_case and other callers make *)

\* the call made last and its argument
RegistryInput(fn, mcp_tools) == [fn |-> fn, mcp_tools |-> mcp_tools]

\* the call has returned a value, or raised
RegistryOutput(raised, value) == [done |-> TRUE, raised |-> raised, value |-> value]

\* a clear that drops the oldest tool only
Clear_oldest ==
    /\ tools' = IF tools = <<>> THEN <<>> ELSE Tail(tools)
    /\ input' = RegistryInput("clear", <<>>)
    /\ output' = RegistryOutput(FALSE, <<>>)

Clear ==
    /\ tools' = clear(tools)
    /\ input' = RegistryInput("clear", <<>>)
    /\ output' = RegistryOutput(FALSE, <<>>)

RegisterTools ==
    \E mcp_tools \in ToolLists :
        /\ tools' = register_tools(tools, mcp_tools).tools
        /\ input' = RegistryInput("register_tools", mcp_tools)
        /\ output' = RegistryOutput(register_tools(tools, mcp_tools).raised, <<>>)

ToOpenaiSchema ==
    /\ tools' = tools
    /\ input' = RegistryInput("to_openai_schema", <<>>)
    /\ output' = RegistryOutput(to_openai_schema(tools).raised, to_openai_schema(tools).value)

\* evaluate_case lines 81-85 on the tools of the case's tools/list response:
\* clear(), register_tools(tools), to_openai_schema()
RegisterCase ==
    \E mcp_tools \in ToolLists :
        LET registered == register_tools(clear(tools), mcp_tools)
            schema == to_openai_schema(registered.tools)
        IN /\ tools' = registered.tools
           /\ input' = RegistryInput("evaluate_case", mcp_tools)
           /\ output' = IF registered.raised
                           THEN RegistryOutput(TRUE, <<>>)
                           ELSE RegistryOutput(schema.raised, schema.value)

RegistryNext ==
    /\ \/ Clear \/ RegisterTools \/ ToOpenaiSchema \/ RegisterCase
    /\ UNCHANGED <<clientVars, stack, ret, elapsed, line, pipe, alive, nprocs, signals, wire,
                   result, log, case>>

RegistrySpec == Init /\ [][RegistryNext]_vars

----------------------------------------------------------------------------
(* Properties *)

Last(w) == w[Len(w)]

IsRequest(m) == m.method # "notifications/initialized"

RequestsOf(w) == SelectSeq(w, IsRequest)

\* the client's step that takes the first line out of the pipe
Reads == Top = "read" /\ pipe # <<>> /\ pipe' = Tail(pipe)

\* the outstanding call returns at this step
Returns == stack' = Tail(stack)

FromResponse == {"result", "badresult", "rpc_error"}

\* C1: a call is completed with a response's payload only by an object line
\* whose id is the call's request id; an object line with any other id, or
\* with no id, is dropped and leaves the call outstanding under the same id.
C1_Correlation ==
    [][Reads =>
         LET l == Head(pipe) IN
         /\ (Returns /\ ret'.data \in FromResponse)
               <=> (l.kind = "obj" /\ l.id = request_id)
         /\ (l.kind = "obj" /\ l.id # request_id)
               => /\ stack' = <<"sleep">> \o Tail(stack)
                  /\ ret' = ret
                  /\ request_id' = request_id]_vars

\* a late response to an earlier request has been read and dropped
C1_Witness ==
    /\ Top = "sleep"
    /\ line.kind = "obj"
    /\ line.id >= 1
    /\ line.id < request_id

\* C2: the k-th request a client sends carries id k (1, 2, 3, ... without
\* reuse or reset, also across stop and start), the counter equals the number
\* of requests sent, and notifications/initialized carries no id.
C2_IdsIncrease ==
    /\ \A i \in 1..Len(RequestsOf(wire)) : RequestsOf(wire)[i].id = i
    /\ request_id = Len(RequestsOf(wire))
    /\ \A i \in 1..Len(wire) : ~IsRequest(wire[i]) => wire[i].id = NoId

\* requests went to two children, with a notification in between
C2_Witness ==
    \E i, j, k \in 1..Len(wire) :
        /\ i < j /\ j < k
        /\ IsRequest(wire[i]) /\ ~IsRequest(wire[j]) /\ IsRequest(wire[k])
        /\ wire[i].proc # wire[k].proc

\* C3: initialize() writes the notification only after it accepted a non-error
\* response to its initialize request, marks the client ready only after the
\* notification is written, and when the request (or the start) fails it
\* returns False at once, writes nothing and does not mark the client ready.
C3_HandshakeOrder ==
    [][/\ (wire' # wire /\ ~IsRequest(Last(wire')))
            => /\ ret.ok
               /\ line.kind = "obj" /\ line.id = request_id /\ ~HasError(line.body)
               /\ Last(wire).method = "initialize" /\ Last(wire).id = request_id
               /\ Last(wire).proc = Last(wire').proc
       /\ (initialized' /\ ~initialized)
            => /\ wire # <<>>
               /\ ~IsRequest(Last(wire))
               /\ Last(wire).proc = process
       /\ (Top \in {"init_started", "init_resp"} /\ ~ret.ok /\ stack' # stack)
            => /\ Returns
               /\ ~ret'.ok
               /\ wire' = wire
               /\ initialized' = initialized]_vars

\* initialize() has returned True: the notification is the last message written
C3_Witness ==
    /\ stack = <<>>
    /\ ret.ok
    /\ initialized
    /\ Len(wire) = 2
    /\ wire[1].method = "initialize"
    /\ wire[2].method = "notifications/initialized"

\* C4: a tools/list or tools/call request reaches a child only after the
\* notification of a completed handshake was written to that same child.
C4_ToolsAfterHandshake ==
    \A i \in 1..Len(wire) :
        (wire[i].method \in {"tools/list", "tools/call"} /\ wire[i].delivered)
           => \E j \in 1..(i - 1) :
                 /\ wire[j].method = "notifications/initialized"
                 /\ wire[j].proc = wire[i].proc

\* C5: a request does not stay outstanding once its timeout has elapsed: when
\* `elapsed` has reached the timeout the client is not waiting in a read or a
\* sleep any more, it is at the loop test that returns the timeout failure.
C5_ReturnsAtTimeout ==
    Top \in {"read", "sleep"} => elapsed < Timeout

\* C6: when evaluate_case has returned, the log holds exactly one record of
\* each case evaluated so far.
C6_OneRecordPerCase ==
    stack = <<>> =>
        /\ Len(log) = case.id
        /\ \A i \in 1..Len(log) : log[i].case_id = i

\* C7: when evaluate_case has returned, the client holds no process handle
\* and the child it started is stopped.
C7_TornDown ==
    (stack = <<>> /\ case.id >= 1) => (process = None /\ ~alive)

\* a case that started a child has returned through the exception path
C7_Witness ==
    /\ stack = <<>>
    /\ nprocs >= 1
    /\ result.error_message = Str(<<"Evaluation error: ", "repr">>)
    /\ process = None

\* no tools/call request reached a child
NoToolsCall(w) == \A i \in 1..Len(w) : w[i].method = "tools/call" => ~w[i].delivered

VerdictOk(r) ==
    r.call_success =>
        (r.has_technical_success /\ r.technical_success /\ r.content_quality_check)

\* C8: in every result, call_success implies technical_success and a passed
\* content validation; a result of a case that sent no tools/call request has
\* call_success false.
C8_CallSuccess ==
    /\ VerdictOk(result)
    /\ \A i \in 1..Len(log) : VerdictOk(log[i])
    /\ (stack = <<>> /\ case.id >= 1 /\ NoToolsCall(wire)) => ~result.call_success

\* a case has returned with call_success true
C8_Witness ==
    /\ stack = <<>>
    /\ result.call_success
    /\ Len(log) = case.id

\* C9: reading a line that is no JSON neither ends nor fails the call: it
\* stays outstanding under the same id with no time consumed, so a matching
\* line read next is accepted.
C9_UnparseableSkipped ==
    [][(Reads /\ Head(pipe).kind = "garbage")
          => /\ stack' = <<"loop">> \o Tail(stack)
             /\ ret' = ret
             /\ request_id' = request_id
             /\ elapsed' = elapsed]_vars

\* a line that is no JSON has been skipped and the call still has time left
C9_Witness ==
    /\ Top = "loop"
    /\ line.kind = "garbage"
    /\ elapsed < Timeout

Malformed(l) == l.kind = "scalar" \/ (l.kind = "obj" /\ l.id = NoId)

\* C10: reading a malformed response line (JSON that is no object, or an
\* object without id) does not end the call.
C10_MalformedIgnored ==
    [][(Reads /\ Malformed(Head(pipe))) => (~Returns /\ ret' = ret)]_vars

\* C11: a matching response with an error field ends the request with a False
\* flag and the error payload, also when it carries a result as well; a
\* request that was not started, could not be written or timed out ends with
\* a False flag and a payload; and no public operation of the client raises
\* an exception to its caller, whatever the child does.
C11_FailuresAreValues ==
    /\ (/\ Top \in AfterSend
        /\ line.kind = "obj" /\ line.id = request_id /\ HasError(line.body))
          => ret = Ret(FALSE, "rpc_error")
    /\ (Top \in AfterSend /\ ret.data \in SendFailures) => ~ret.ok
    /\ (stack = <<>>) => ret.data # "raised"

\* a step of the client (the child's steps leave the stack alone)
ClientMoves == stack' # stack

\* C12: stop() on a client that holds a process first asks the child to
\* terminate, then waits, and kills the child only if it still runs when the
\* wait ends; when stop() returns the client holds no process; stop() on a
\* client without process changes nothing and sends no signal.
C12_StopOrder ==
    [][/\ (Top = "stop" /\ ClientMoves /\ process # None)
            => /\ signals' = <<"terminate">>
               /\ stack' = <<"stop_wait">> \o Tail(stack)
               /\ UNCHANGED <<process, alive>>
       /\ (Top = "stop" /\ ClientMoves /\ process = None)
            => /\ Returns
               /\ UNCHANGED <<clientVars, alive, pipe, nprocs, signals, wire>>
       /\ (Top = "stop_wait" /\ ClientMoves)
            => /\ Returns
               /\ process' = None
               /\ ~alive'
               /\ signals' = IF alive THEN <<"terminate", "kill">> ELSE <<"terminate">>
       /\ (signals' # signals /\ signals' # <<>>)
            => Top \in {"stop", "stop_wait"}]_vars

\* stop() has returned after killing a child that ignored the request
C12_Witness ==
    /\ stack = <<>>
    /\ process = None
    /\ signals = <<"terminate", "kill">>

\* the two shapes of a result: no tool call chosen, or a chosen tool with its
\* verdicts (selection_correct, parameter_correct and call_success are keys
\* of every record; technical_success is a key once it has been stored)
HasShape(r) == r.chosen_tool = "null" \/ r.has_technical_success

\* C13: every result evaluate_case returns or logs either has no chosen tool,
\* or has a chosen tool together with selection_correct, parameter_correct,
\* call_success and technical_success; no record has a chosen tool without a
\* technical_success verdict.
C13_ResultShapes ==
    /\ (stack = <<>> /\ case.id >= 1) => HasShape(result)
    /\ \A i \in 1..Len(log) : HasShape(log[i])

\* the call of the function fn has returned a value
Answered(fn) == input.fn = fn /\ output.done /\ ~output.raised

\* structuredContent.result of the call_result is a string that begins with w
ResultBegins(r, w) ==
    /\ "structuredContent" \in DOMAIN r.f
    /\ r.f["structuredContent"].t = "obj"
    /\ "result" \in DOMAIN r.f["structuredContent"].f
    /\ r.f["structuredContent"].f["result"].t = "str"
    /\ startswith(r.f["structuredContent"].f["result"].s, w)

\* C14: _evaluate_technical_success returns false when the call did not
\* succeed, when the raw result is no object, when its isError flag is true
\* and when structuredContent.result is a string beginning with "Error:";
\* for every other input it returns true.
C14_TechnicalSuccess ==
    (input.fn = "technical" /\ output.done)
       => /\ ~output.raised
          /\ output.ok = (/\ input.call_success
                          /\ input.call_result.t = "obj"
                          /\ Get(input.call_result, "isError", Bool(FALSE)) # Bool(TRUE)
                          /\ ~ResultBegins(input.call_result, "Error:"))

\* structuredContent.result of a call_result, Absent if there is none
ResultOf(r) ==
    IF /\ r.t = "obj"
       /\ "structuredContent" \in DOMAIN r.f
       /\ r.f["structuredContent"].t = "obj"
       /\ "result" \in DOMAIN r.f["structuredContent"].f
       THEN r.f["structuredContent"].f["result"]
       ELSE Absent

\* the strings the claim lists as not meaningful
EmptyOrErrorText(s) ==
    \/ strip(s) = <<>>
    \/ LowerIn(strip(s), {"none", "null", "empty"})
    \/ startswith(strip(s), "Error:")
    \/ startswith(strip(s), "Failed:")

\* C15: for a result that is a string, _has_meaningful_content is false when
\* the stripped string is empty, is "none", "null" or "empty" in any case, or
\* begins with "Error:" or "Failed:", and true for every other string,
\* whatever the content list holds.
C15_StringResults ==
    (input.fn = "meaningful" /\ output.done /\ ResultOf(input.call_result).t = "str")
       => /\ ~output.raised
          /\ output.ok = ~EmptyOrErrorText(ResultOf(input.call_result).s)

\* C16: for a result object with a data member, _has_meaningful_content is
\* true exactly when data is a non-empty list, whatever the other members
\* and the content list are; for a result that is a list, it is true exactly
\* when the list is not empty.
C16_DataAndLists ==
    (input.fn = "meaningful" /\ output.done)
       => LET result_data == ResultOf(input.call_result) IN
          /\ (result_data.t = "obj" /\ "data" \in DOMAIN result_data.f)
                => /\ ~output.raised
                   /\ output.ok = (/\ result_data.f["data"].t = "list"
                                   /\ result_data.f["data"].e # <<>>)
          /\ (result_data.t = "list")
                => /\ ~output.raised
                   /\ output.ok = (result_data.e # <<>>)

\* an empty data list beside another member that has a value and a content
\* list with a text: not meaningful
C16_Witness ==
    /\ input.fn = "meaningful"
    /\ output.done
    /\ ~output.ok
    /\ ResultOf(input.call_result) = Obj([data |-> List(<<>>), a |-> Str(<<"ok">>)])
    /\ ContentListMeaningful(input.call_result) = "true"

\* C17: for a non-empty result object without a data member,
\* _has_meaningful_content is true exactly when at least one of its values
\* is not null, not the empty string and not the empty list; the number 0,
\* the boolean false and the empty object are such values.
C17_ObjectValues ==
    (input.fn = "meaningful" /\ output.done)
       => LET result_data == ResultOf(input.call_result) IN
          (/\ result_data.t = "obj"
           /\ "data" \notin DOMAIN result_data.f
           /\ DOMAIN result_data.f # {})
             => /\ ~output.raised
                /\ output.ok = (\E k \in DOMAIN result_data.f :
                                   /\ result_data.f[k] # Null
                                   /\ result_data.f[k] # Str(<<>>)
                                   /\ result_data.f[k] # List(<<>>))

\* the names of a dot path
NotDot(x) == x # "."
NamesOf(path) == SelectSeq(path, NotDot)

\* the object o has a value at the end of the chain of names
RECURSIVE Present(_, _)
Present(o, names) ==
    \/ names = <<>>
    \/ /\ o.t = "obj"
       /\ Head(names) \in DOMAIN o.f
       /\ Present(o.f[Head(names)], Tail(names))

\* the result the content check looks at: the object a string result is the
\* JSON text of, or the result itself
Checked(r) ==
    LET given == ResultOf(r) IN
    IF given.t = "str" /\ ParsedObject(given.s) # Absent THEN ParsedObject(given.s)
    ELSE given

\* the content check of the claim: an object, with at least min_items data
\* items if data is a list, and with every required field
PassesCheck(r, rules) ==
    LET o == Checked(r) IN
    /\ o.t = "obj"
    /\ ("data" \in DOMAIN o.f /\ o.f["data"].t = "list")
          => Len(o.f["data"].e) >= MinItems(rules)
    /\ \A i \in 1..Len(RequiredFields(rules)) :
          Present(o, NamesOf(RequiredFields(rules)[i]))

\* C18: _validate_content_quality returns (False, "Empty or meaningless
\* result") whenever _has_meaningful_content is false, whatever the
\* expectation is; with a content_check expectation and meaningful content it
\* fails if the result (parsed, if it is a string) is no object, if a data
\* list has fewer than min_items items or if a required dot path is absent,
\* and passes otherwise.
C18_ContentCheck ==
    (input.fn = "quality" /\ output.done)
       => /\ MeaningfulOutcome(input.call_result) = "false"
               => /\ ~output.raised
                  /\ ~output.ok
                  /\ output.reason = "Empty or meaningless result"
          /\ (/\ MeaningfulOutcome(input.call_result) = "true"
              /\ input.expected.t = "obj"
              /\ input.expected.type = "content_check")
               => /\ ~output.raised
                  /\ output.ok = PassesCheck(input.call_result, input.expected)

\* the expectation asks for basic validation: none, or any kind other than
\* content_check
AsksBasic(expected) == expected.t = "null" \/ expected.type # "content_check"

\* structuredContent.result is a string with one of the error indicators
HasIndicator(r) ==
    /\ ResultOf(r).t = "str"
    /\ \E indicator \in ErrorIndicators : Contains(ResultOf(r).s, indicator)

\* C19: with no expectation, a data_structure expectation or one of an
\* unknown kind, _validate_content_quality fails if the content is not
\* meaningful, fails if structuredContent.result is a string that contains
\* "error", "failed", "exception", "not found" or "invalid" in any case, and
\* passes otherwise; a result that is no string never fails the scan.
C19_BasicValidation ==
    (input.fn = "quality" /\ output.done /\ AsksBasic(input.expected))
       => /\ ~output.raised
          /\ output.ok = (/\ MeaningfulOutcome(input.call_result) = "true"
                          /\ ~HasIndicator(input.call_result))

\* the names the expectation map marks as required
RequiredNames(expected_params) ==
    IF expected_params.t = "obj"
       THEN {n \in DOMAIN expected_params.f : expected_params.f[n] = Str(<<"required">>)}
       ELSE {}

\* a string of white space only
Blank(v) == v.t = "str" /\ \A i \in 1..Len(v.s) : v.s[i] = " "

\* C20: _validate_parameters(args, expected) is true exactly when every
\* parameter marked "required" is a key of args whose value is neither null
\* nor a blank string; with an empty expectation map it is true for any args.
\* The verdict is a function of args and expected alone.
C20_RequiredParameters ==
    (input.fn = "parameters" /\ output.done)
       => /\ ~output.raised
          /\ output.ok = (\A n \in RequiredNames(input.expected_parameters) :
                             /\ n \in DOMAIN input.tool_args.f
                             /\ input.tool_args.f[n] # Null
                             /\ ~Blank(input.tool_args.f[n]))
          /\ (input.expected_parameters.t = "obj" /\ DOMAIN input.expected_parameters.f = {})
                => output.ok

\* a required parameter is given as a blank string beside a good one: false
C20_Witness ==
    /\ input.fn = "parameters"
    /\ output.done
    /\ ~output.ok
    /\ RequiredNames(input.expected_parameters) = {"q", "k"}
    /\ input.tool_args = Obj([q |-> Str(<<" ">>), k |-> Str(<<"ok">>)])

\* evaluate_case has returned the record of the case
Returned_case == stack = <<>> /\ case.id >= 1

\* no tools/call request was written
NeverCalled(w) == \A i \in 1..Len(w) : w[i].method # "tools/call"

\* C21: a case whose model call returns without error and without a tool call
\* ends with selection_correct and call_success false, no chosen tool and no
\* error message, and it has sent no tools/call request.
C21_NoToolCall ==
    (Returned_case /\ case.llm_response = LLMResponse(Absent, <<>>)) =>
        /\ ~result.selection_correct
        /\ ~result.call_success
        /\ result.chosen_tool = "null"
        /\ result.error_message = Null
        /\ NeverCalled(wire)

\* a case has returned after the model chose no tool
C21_Witness ==
    /\ Returned_case
    /\ case.llm_response = LLMResponse(Absent, <<>>)
    /\ Len(wire) >= 3

\* C22: a case whose model call returns an error ends with that error in
\* error_message, no chosen tool, selection_correct, parameter_correct and
\* call_success false, and it has sent no tools/call request.
C22_ModelError ==
    (Returned_case /\ case.llm_response.error # Absent) =>
        /\ result.error_message = Str(<<"LLM error: ">> \o case.llm_response.error.s)
        /\ result.chosen_tool = "null"
        /\ ~result.selection_correct
        /\ ~result.parameter_correct
        /\ ~result.call_success
        /\ NeverCalled(wire)

\* a case has returned after the model call failed with a text
C22_Witness ==
    /\ Returned_case
    /\ case.llm_response.error = Str(<<"Invalid">>)
    /\ result.error_message = Str(<<"LLM error: ", "Invalid">>)

\* the message begins with the given words
Begins(message, w) == message # Null /\ startswith(message.s, w)

\* C23: in the result of a case whose tool call was classified, error_message
\* is null exactly when call_success is true, begins with "Technical failure"
\* exactly when technical_success is false, and begins with "Content quality
\* failure" exactly when technical_success is true and the content check failed.
C23_MessageMatchesVerdict ==
    (Returned_case /\ result.has_technical_success) =>
        /\ (result.error_message = Null) <=> result.call_success
        /\ Begins(result.error_message, "Technical failure: ") <=> ~result.technical_success
        /\ Begins(result.error_message, "Content quality failure: ")
              <=> (result.technical_success /\ ~result.content_quality_check)

\* lines 105-149 have run on a non-error answer of the server to tools/call
CallAnswered ==
    /\ input.fn = "call"
    /\ output.done
    /\ input.call_success
    /\ input.call_result.t = "obj"
    /\ ~Truthy(Get(input.call_result, "isError", Bool(FALSE)))

\* the text s occurs in the message
Includes(message, s) ==
    /\ message.t = "str"
    /\ \E i \in 1..Len(message.s) :
          /\ i + Len(s) - 1 <= Len(message.s)
          /\ SubSeq(message.s, i, i + Len(s) - 1) = s

\* C24: when the server answers tools/call without error and
\* structuredContent.result is a string beginning with "Error:", the case has
\* technical_success false, call_success false and an error_message that
\* contains that string.
C24_ErrorTextReply ==
    (CallAnswered /\ ResultBegins(input.call_result, "Error:")) =>
        /\ output.result.raised = "none"
        /\ ~output.result.technical_success
        /\ ~output.result.call_success
        /\ Includes(output.result.error_message, ResultOf(input.call_result).s)

\* the server's error text has more words than "Error:"
C24_Witness ==
    /\ CallAnswered
    /\ ResultOf(input.call_result) = Str(<<"Error:", "not found">>)
    /\ output.result.error_message = Str(<<"Technical failure: ", "Error:", "not found">>)

\* the first tool call names an expected tool and gives every required
\* parameter a value that is not blank
GoodCall ==
    /\ input.chosen_tool \in input.expected_tools
    /\ \A n \in RequiredNames(input.expected_parameters) :
          /\ n \in DOMAIN input.tool_args.f
          /\ input.tool_args.f[n] # Null
          /\ ~Blank(input.tool_args.f[n])

\* structuredContent.result holds a data array that is not empty
HasData(r) ==
    LET result_data == ResultOf(r) IN
    /\ result_data.t = "obj"
    /\ "data" \in DOMAIN result_data.f
    /\ result_data.f["data"].t = "list"
    /\ result_data.f["data"].e # <<>>

AllCorrect(r) ==
    /\ r.raised = "none"
    /\ r.selection_correct
    /\ r.parameter_correct
    /\ r.technical_success
    /\ r.content_quality_check
    /\ r.call_success
    /\ r.error_message = Null

\* C25 as stated: a good first tool call that the server answers without
\* error and with a non-empty data array gives selection_correct,
\* parameter_correct, technical_success, content_quality_check and
\* call_success all true and no error_message.
C25_AllCorrect_stated ==
    (CallAnswered /\ GoodCall /\ HasData(input.call_result)) => AllCorrect(output.result)

\* the case states a content check and the result does not pass it
FailsExpectation(r, expected) ==
    /\ HasExpectation(expected)
    /\ expected.type = "content_check"
    /\ ~PassesCheck(r, expected)

\* C25: a good first tool call that the server answers without error and
\* with a non-empty data array gives all five verdicts true and no
\* error_message, provided the result passes the content check the case
\* states, if it states one.
C25_AllCorrect ==
    (/\ CallAnswered
     /\ GoodCall
     /\ HasData(input.call_result)
     /\ ~FailsExpectation(input.call_result, input.expected))
        => AllCorrect(output.result)

\* a case with a content check that the data array passes
C25_Witness ==
    /\ CallAnswered
    /\ GoodCall
    /\ RequiredNames(input.expected_parameters) = {"q"}
    /\ ResultOf(input.call_result) = Obj([data |-> ListOf(1), a |-> Obj([b |-> Null])])
    /\ input.expected = Expectation("content_check", Num(1), List(<< <<"a", ".", "b">> >>))
    /\ AllCorrect(output.result)

\* C26: run_evaluation evaluates every loaded case exactly once and in file
\* order, whatever the results of earlier cases are, and a run that has
\* entered its loop always reaches the completion report.
C26_RunCompletes ==
    /\ [](output.done => output.evaluated = [i \in 1..Len(input.cases) |-> i])
    /\ (Top = "run_loop") ~> output.done

\* the lines of the log whose record has the verdict `key` true
TrueLines(l, key) ==
    {i \in 1..Len(l) : key \in DOMAIN l[i].f /\ l[i].f[key] = Bool(TRUE)}

\* the exact quotient k / n as a fraction: equal fractions have equal cross
\* products
IsQuotient(rate, k, n) == rate.den > 0 /\ rate.num * n = k * rate.den

\* the count and the rate the summary gives for a verdict
CountAndRate(summary, count, rate, l, key) ==
    /\ count = Cardinality(TrueLines(l, key))
    /\ IF Len(l) = 0 THEN rate = Zero
                     ELSE IsQuotient(rate, Cardinality(TrueLines(l, key)), Len(l))

\* C27: summarize over a log of N records, K of them with selection_correct
\* true, returns total_cases = N, correct_selections = K and
\* selection_accuracy = K/N (0.0 for the empty log), likewise for call_success
\* and parameter_correct, and leaves the log as it is.
C27_Summary ==
    [][(input.fn = "summarize" /\ output'.done) =>
         LET s == output'.summary
             l == input.log IN
         /\ s.total_cases = Len(l)
         /\ CountAndRate(s, s.correct_selections, s.selection_accuracy, l, "selection_correct")
         /\ CountAndRate(s, s.successful_calls, s.call_success_rate, l, "call_success")
         /\ CountAndRate(s, s.correct_parameters, s.parameter_accuracy, l, "parameter_correct")
         /\ s.detailed_results = l
         /\ input' = input]_vars

\* a log of two records, one of them with selection_correct true
C27_Witness ==
    /\ input.fn = "summarize"
    /\ output.done
    /\ output.summary.total_cases = 2
    /\ output.summary.correct_selections = 1
    /\ output.summary.selection_accuracy = [num |-> 1, den |-> 2]
    /\ output.summary.call_success_rate = Zero

\* the item is a tool with a name that is not empty
IsNamed(tool) ==
    /\ tool.t = "obj"
    /\ "name" \in DOMAIN tool.f
    /\ tool.f["name"] # Str(<<>>)

\* the names of the named tools of a tools list
NamedIn(mcp_tools) ==
    {mcp_tools[i].f["name"] : i \in {j \in 1..Len(mcp_tools) : IsNamed(mcp_tools[j])}}

\* the definition a tools list gives last for a name
LastNamed(mcp_tools, name) ==
    LET at == {i \in 1..Len(mcp_tools) :
                  IsNamed(mcp_tools[i]) /\ mcp_tools[i].f["name"] = name}
    IN mcp_tools[CHOOSE i \in at : \A j \in at : j <= i]

\* every item of the list is an object, so that the registration completes
AllObjects(mcp_tools) == \A i \in 1..Len(mcp_tools) : mcp_tools[i].t = "obj"

C29_ClearThenRegisterNothing ==
    [][(/\ input.fn = "clear"
        /\ input'.fn = "register_tools"
        /\ input'.mcp_tools = <<>>) =>
          /\ tools' = <<>>
          /\ Names(tools') = {}
          /\ \A name \in {Str(<<"a">>), Str(<<"b">>), Str(<<>>)} :
                get_tool(tools', name) = EmptyObj
          /\ to_openai_schema(tools') = [raised |-> FALSE, value |-> <<>>]]_vars

\* the empty list has been registered in an empty catalog
C29_Witness ==
    /\ input.fn = "register_tools"
    /\ input.mcp_tools = <<>>
    /\ output.done
    /\ ~output.raised
    /\ tools = <<>>

\* the inputSchema member of a registered tool, Absent if it has none
SchemaOf(tool) == IF "inputSchema" \in DOMAIN tool.f THEN tool.f["inputSchema"] ELSE Absent

\* the shapes the claim lists: no schema, or a mapping
Mapping(schema) == schema = Absent \/ schema.t = "obj"

\* the schema has properties and does not declare the type object
PropertiesOnly(schema) ==
    /\ schema.t = "obj"
    /\ "properties" \in DOMAIN schema.f
    /\ ~("type" \in DOMAIN schema.f /\ schema.f["type"] = Str(<<"object">>))

\* the parameters schema projected for the i-th tool
Parameters(value, i) == value[i].f["function"].f["parameters"]

\* C30: when every registered tool has no input schema or a mapping as input
\* schema, to_openai_schema gives each tool a parameters schema of type
\* "object"; a schema with properties and no object type is wrapped with the
\* same properties and required list; the catalog is left unchanged.
C30_Projection ==
    [][input'.fn = "to_openai_schema" =>
          /\ tools' = tools
          /\ (\A i \in 1..Len(tools) : Mapping(SchemaOf(tools[i].tool))) =>
                /\ ~output'.raised
                /\ Len(output'.value) = Len(tools)
                /\ \A i \in 1..Len(tools) :
                      LET schema == SchemaOf(tools[i].tool)
                          parameters == Parameters(output'.value, i) IN
                      /\ parameters.t = "obj"
                      /\ "type" \in DOMAIN parameters.f
                      /\ parameters.f["type"] = Str(<<"object">>)
                      /\ PropertiesOnly(schema) =>
                            /\ parameters.f["properties"] = schema.f["properties"]
                            /\ parameters.f["required"] =
                                  (IF "required" \in DOMAIN schema.f
                                      THEN schema.f["required"] ELSE List(<<>>))]_vars

\* a schema of type string with properties and a required list was wrapped
C30_Witness ==
    /\ input.fn = "to_openai_schema"
    /\ output.done
    /\ ~output.raised
    /\ Len(tools) = 2
    /\ SchemaOf(tools[1].tool) =
          Obj([type |-> Str(<<"string">>), properties |-> SomeProperties,
               required |-> List(<<Str(<<"x">>)>>)])
    /\ Parameters(output.value, 1) =
          Obj([type |-> Str(<<"object">>), properties |-> SomeProperties,
               required |-> List(<<Str(<<"x">>)>>)])


\* a message of the given method has been written (or its write attempted)
Sent(w, m) == \E i \in 1..Len(w) : w[i].method = m

Asked(c) == c.llm_response.asked

Classified(r) == r.has_technical_success

\* each step is taken for the first time only after the steps before it
StepsInOrder ==
    /\ (Sent(wire', "initialize") /\ ~Sent(wire, "initialize")) => wire = <<>>
    /\ (Sent(wire', "tools/list") /\ ~Sent(wire, "tools/list"))
          => /\ initialized
             /\ Sent(wire, "notifications/initialized")
             /\ ~Asked(case)
    /\ (Asked(case') /\ ~Asked(case))
          => /\ Top = "ev_listed"
             /\ ret.ok
             /\ Sent(wire, "tools/list")
             /\ ~Sent(wire, "tools/call")
    /\ (Sent(wire', "tools/call") /\ ~Sent(wire, "tools/call"))
          => /\ Asked(case)
             /\ case.llm_response.error = Absent
             /\ case.llm_response.tool_calls # <<>>
             /\ ~Classified(result)
    /\ (Classified(result') /\ ~Classified(result))
          => /\ Top = "ev_called"
             /\ Sent(wire, "tools/call")

\* a case that recorded the failure of its handshake, of its tools/list or of
\* its model call has performed none of the later steps
FailureStops(r, c, w) ==
    /\ r.error_message = Str(<<"Failed to initialize MCP client">>)
          => ~Sent(w, "tools/list") /\ ~Asked(c) /\ ~Sent(w, "tools/call") /\ ~Classified(r)
    /\ r.error_message = Str(<<"Failed to list tools from MCP server">>)
          => ~Asked(c) /\ ~Sent(w, "tools/call") /\ ~Classified(r)
    /\ Begins(r.error_message, "LLM error: ")
          => ~Sent(w, "tools/call") /\ ~Classified(r)

\* C31 as stated: the steps of a case occur in the order handshake,
\* tools/list, model call, tools/call, classification, and after any step
\* fails no later step is performed; in particular a tools/call that failed
\* is not classified.
C31_StepsInOrder_stated ==
    [][/\ StepsInOrder
       /\ FailureStops(result', case', wire')
       /\ (Classified(result') /\ ~Classified(result)) => ret.ok]_vars

\* C31: the steps of a case occur in the order handshake, tools/list, model
\* call, tools/call, classification: the model is asked only after a
\* successful tools/list, tools/call is sent only after the model returned a
\* tool call, and after a failed handshake, tools/list or model call no later
\* step is performed; a tools/call is classified whether it succeeded or not.
C31_StepsInOrder ==
    [][/\ StepsInOrder
       /\ FailureStops(result', case', wire')]_vars

\* a failed tools/call has been classified, after all the steps before it
C31_Witness ==
    /\ Top = "stop"
    /\ ~ret.ok
    /\ Classified(result)
    /\ Asked(case)
    /\ Sent(wire, "tools/call")
    /\ Sent(wire, "tools/list")

\* C32: the ready flag is set only while the client holds a child process
\* handle: a client without a process (never started, or stopped) is not
\* marked ready.
C32_ReadyOnlyWithProcess ==
    initialized => process # None

\* the methods and ids of the messages written, in order
Written(w) == [i \in 1..Len(w) |-> [method |-> w[i].method, id |-> w[i].id]]

\* the messages of a case that reaches the tool call
CaseMessages ==
    << [method |-> "initialize", id |-> 1],
       [method |-> "notifications/initialized", id |-> NoId],
       [method |-> "tools/list", id |-> 2],
       [method |-> "tools/call", id |-> 3] >>

ToolsCalls(w) == {i \in 1..Len(w) : w[i].method = "tools/call"}

\* C34: at most one tools/call request is written per case, and when the
\* model returned tool calls only the first counts: chosen_tool is its name,
\* selection_correct and parameter_correct are the checks of that call, and
\* the request that is written names that tool.
C34_OnlyFirstCall ==
    LET tool_calls == case.llm_response.tool_calls IN
    /\ Cardinality(ToolsCalls(wire)) <= 1
    /\ tool_calls = <<>> => ToolsCalls(wire) = {}
    /\ tool_calls # <<>>
          => /\ result.chosen_tool = tool_calls[1].name
             /\ result.selection_correct = tool_calls[1].in_expected_tools
             /\ result.parameter_correct = tool_calls[1].arguments_valid
             /\ \A i \in ToolsCalls(wire) : wire[i].name = tool_calls[1].name

\* the model returned two tool calls, and call_tool has returned
C34_Witness ==
    /\ Len(case.llm_response.tool_calls) = 2
    /\ Top = "ev_called"
    /\ Cardinality(ToolsCalls(wire)) = 1
    /\ result.chosen_tool = "tool"

\* C35: a request attempted on a client without a child process returns the
\* failure "Server not started" and changes nothing else: no message is
\* written, the id counter is not advanced, the ready flag and the process
\* handle are unchanged.
C35_NotStartedChangesNothing ==
    [][(Top = "send" /\ process = None)
          => /\ ret' = Ret(FALSE, "not_started")
             /\ stack' = Tail(stack)
             /\ UNCHANGED <<wire, request_id, initialized, process, pipe, alive, nprocs>>]_vars

\* a request has returned "Server not started" to the operation that made it
C35_Witness ==
    /\ ret = Ret(FALSE, "not_started")
    /\ Top \in AfterSend
    /\ process = None

========================================================================
